---------------------------- MODULE Spec2Model ----------------------------
(***************************************************************************)
(* A model of crates/brioche-packer/src/autowrap.rs: the top-level driver  *)
(* autowrap, the classifier autowrap_kind, the four wrappers, the context  *)
(* builder autowrap_context and the library closure resolver               *)
(* collect_all_library_dirs.                                               *)
(*                                                                         *)
(* The module holds several specifications over one set of variables; each *)
(* specification drives one part of the program and leaves the variables   *)
(* of the other parts at their idle values:                                *)
(*   Spec        the driver autowrap over explicit paths and glob entries  *)
(*   SpecLibs    collect_all_library_dirs, called by a wrapper             *)
(*   SpecScript  autowrap_script: the shebang line and the command search  *)
(*   SpecCtx     autowrap_context: the search lists of the link            *)
(*               dependencies                                              *)
(*   SpecWrap    autowrap_shared_library: the bytes of the files           *)
(*   SpecLibsFair  SpecLibs with weak fairness of the loop step            *)
(*   SpecExec    autowrap_dynamic_binary and autowrap_script: the bytes of *)
(*               the files, from the read of the source to inject_pack     *)
(***************************************************************************)
EXTENDS Naturals, Integers, Sequences, FiniteSets, TLC

VARIABLES
    \* ---- driver (autowrap) ----
    config,     \* AutowrapConfig: which policies are present, quiet, paths, globs
    files,      \* the file system under recipe_path: path -> contents
    pc,         \* the driver's position
    idx,        \* index of the next explicit path / walkdir entry
    result,     \* "running", "ok" (Ok(())) or "err" (Err)
    stdout,     \* the lines printed by println!
    calls,      \* history of the try_autowrap_path calls (and walk errors)
    \* ---- library closure (collect_all_library_dirs) ----
    lenv,                   \* the library files, the artifact and its policy
    lpc,                    \* "idle", "start", "loop", "ok" or "err"
    needed_libraries,       \* the work queue
    library_search_paths,   \* the live search-path list
    resource_library_dirs,  \* the output list
    found_libraries,        \* names already resolved
    found_library_dirs,     \* resource directories already emitted
    lhist,                  \* history: what each iteration did with its name
    \* ---- script wrapper (autowrap_script), up to the command search ----
    script,         \* the script file's first line after "#!", without newline
    spc,            \* "idle", "start", "read", "parsed", "found" or "err"
    shebang_line,   \* what read_line returned
    command_name,   \* the name searched in ctx.link_dependency_paths
    arg,            \* the literal argument (<<>> for None)
    command,        \* the command found (<<>> for None)
    \* ---- context (autowrap_context) ----
    cenv,           \* self_dependency, link_dependencies and the roots' directories
    cpc,            \* "idle", "start", "library_path", "path", "bin", "ok" or "err"
    ci,             \* index of the next link dependency of the loop at hand
    link_dependencies,
    link_dependency_library_paths,
    link_dependency_paths,
    \* ---- the wrappers' file output (autowrap_shared_library in SpecWrap,
    \*      autowrap_dynamic_binary and autowrap_script in SpecExec) ----
    wenv,           \* source_path, output_path, the pack, the policy
    wpc,            \* "idle", "start", the statement at hand, "true", "false" or "err"
    fs,             \* the files: path -> bytes (or Missing)
    contents,       \* the bytes read from source_path
    file            \* the open output file

drivervars == <<config, files, pc, idx, result, stdout, calls>>

libvars == <<lenv, lpc, needed_libraries, library_search_paths,
             resource_library_dirs, found_libraries, found_library_dirs,
             lhist>>

scriptvars == <<script, spc, shebang_line, command_name, arg, command>>

ctxvars == <<cenv, cpc, ci, link_dependencies, link_dependency_library_paths,
             link_dependency_paths>>

wrapvars == <<wenv, wpc, fs, contents, file>>

vars == <<drivervars, libvars, scriptvars, ctxvars, wrapvars>>

nondrivervars == <<libvars, scriptvars, ctxvars, wrapvars>>

nonlibvars == <<drivervars, scriptvars, ctxvars, wrapvars>>

nonscriptvars == <<drivervars, libvars, ctxvars, wrapvars>>

nonctxvars == <<drivervars, libvars, scriptvars, wrapvars>>

nonwrapvars == <<drivervars, libvars, scriptvars, ctxvars>>

----------------------------------------------------------------------------
(* Bounds *)

\* longest list of explicit paths (config.paths)
MaxPaths == 2

\* the paths under recipe_path
PathNames == {"a", "b"}

\* the order in which walkdir yields the entries under recipe_path
WalkOrder == <<"a", "b">>

----------------------------------------------------------------------------
(* File contents, as far as the driver and the classifier look at them.    *)
(*   pack   : brioche_pack::extract_pack(&contents) is Ok                  *)
(*   head   : "#!" the bytes start with the shebang marker,                *)
(*            "elf" goblin parses the bytes as an ELF object,              *)
(*            "other" neither                                              *)
(*   interp : the ELF's program interpreter: "none", "abs" (starts with    *)
(*            '/') or "rel" (does not)                                     *)
(*   is_lib : the ELF is marked as a shared object                         *)
(*   deps   : the steps of the wrapper that depend on the environment      *)
(*            (interpreter / command found, libraries resolved, packed     *)
(*            executable opened) succeed                                   *)
(***************************************************************************)

Absent == [type |-> "absent"]

Directory == [type |-> "dir"]

File(pack, head, interp, is_lib, deps) ==
    [type |-> "file", pack |-> pack, head |-> head, interp |-> interp,
     is_lib |-> is_lib, deps |-> deps]

\* The generic packed executable with a pack injected: what the dynamic
\* binary and script wrappers leave at the output path.
PackedStub == File(TRUE, "elf", "none", FALSE, TRUE)

FileContents ==
    { File(TRUE, "#!", "none", FALSE, TRUE),
      File(TRUE, "elf", "abs", FALSE, TRUE),
      File(TRUE, "other", "none", FALSE, TRUE),
      File(FALSE, "#!", "none", FALSE, TRUE),
      File(FALSE, "#!", "none", FALSE, FALSE),
      File(FALSE, "elf", "abs", FALSE, TRUE),
      File(FALSE, "elf", "abs", FALSE, FALSE),
      File(FALSE, "elf", "abs", TRUE, TRUE),
      File(FALSE, "elf", "rel", FALSE, TRUE),
      File(FALSE, "elf", "none", TRUE, TRUE),
      File(FALSE, "elf", "none", TRUE, FALSE),
      File(FALSE, "elf", "none", FALSE, TRUE),
      File(FALSE, "other", "none", FALSE, TRUE) }

RECURSIVE SeqsUpTo(_, _)
SeqsUpTo(S, n) ==
    IF n = 0 THEN { <<>> }
    ELSE LET shorter == SeqsUpTo(S, n - 1)
         IN  shorter \cup { Append(s, x) : s \in shorter, x \in S }

Last(s) == s[Len(s)]

----------------------------------------------------------------------------
(* The classifier and the wrappers, as the driver sees them: each wrapper  *)
(* returns Ok(true), Ok(false) or Err, and the contents it leaves at the   *)
(* output path (which the driver always passes equal to the source path).  *)

Ret(ret, out) == [ret |-> ret, out |-> out]

\* a classifier with the shebang test before the pack test
autowrap_kind_shebang_first(c) ==
    IF c.type # "file" THEN "Err"
    ELSE IF c.head = "#!" THEN "Script"
    ELSE IF c.pack THEN "Rewrap"
    ELSE IF c.head # "elf" THEN "None"
    ELSE IF c.interp # "none" THEN "DynamicBinary"
    ELSE IF c.is_lib THEN "SharedLibrary"
    ELSE "None"

\* autowrap_kind: "Err" when std::fs::read fails, "None" for Ok(None)
autowrap_kind(c) ==
    IF c.type # "file" THEN "Err"
    ELSE IF c.pack THEN "Rewrap"
    ELSE IF c.head = "#!" THEN "Script"
    ELSE IF c.head # "elf" THEN "None"
    ELSE IF c.interp # "none" THEN "DynamicBinary"
    ELSE IF c.is_lib THEN "SharedLibrary"
    ELSE "None"

autowrap_dynamic_binary(cfg, c) ==
    IF ~cfg.dynamic_binary THEN Ret("Ok_false", c)
    ELSE IF c.head # "elf" THEN Ret("Err", c)
    ELSE IF c.interp = "none" THEN Ret("Err", c)
    ELSE IF c.interp = "rel" THEN Ret("Err", c)
    ELSE IF ~c.deps THEN Ret("Err", c)
    ELSE Ret("Ok_true", PackedStub)

autowrap_shared_library(cfg, c) ==
    IF ~cfg.shared_library THEN Ret("Ok_false", c)
    ELSE IF c.head # "elf" THEN Ret("Err", c)
    ELSE IF ~c.deps THEN Ret("Err", c)
    ELSE Ret("Ok_true", [c EXCEPT !.pack = TRUE])

autowrap_script(cfg, c) ==
    IF ~cfg.script THEN Ret("Ok_false", c)
    ELSE IF c.head # "#!" THEN Ret("Ok_false", c)
    ELSE IF ~c.deps THEN Ret("Err", c)
    ELSE Ret("Ok_true", PackedStub)

\* a rewrap wrapper that bails before it looks at the configuration
autowrap_rewrap_always_fails(cfg, c) == Ret("Err", c)

autowrap_rewrap(cfg, c) ==
    IF ~cfg.rewrap THEN Ret("Ok_false", c)
    ELSE Ret("Err", c)

try_autowrap_path(cfg, c) ==
    LET kind == autowrap_kind(c)
    IN  CASE kind = "Err" -> Ret("Err", c)
          [] kind = "None" -> Ret("Ok_false", c)
          [] kind = "DynamicBinary" -> autowrap_dynamic_binary(cfg, c)
          [] kind = "SharedLibrary" -> autowrap_shared_library(cfg, c)
          [] kind = "Script" -> autowrap_script(cfg, c)
          [] kind = "Rewrap" -> autowrap_rewrap(cfg, c)

\* one entry of the history of calls
Call(origin, path, c, cfg) ==
    [origin |-> origin, path |-> path, contents |-> c,
     kind |-> autowrap_kind(c), ret |-> try_autowrap_path(cfg, c).ret]

----------------------------------------------------------------------------
(* The driver autowrap *)

Configs ==
    [dynamic_binary : BOOLEAN, shared_library : BOOLEAN, script : BOOLEAN,
     rewrap : BOOLEAN, quiet : BOOLEAN,
     paths : SeqsUpTo(PathNames, MaxPaths),
     globs : SUBSET PathNames]

\* the entries walkdir yields: everything that exists under recipe_path
WalkEntries == SelectSeq(WalkOrder, LAMBDA p : files[p].type # "absent")

DriverInit ==
    /\ config \in Configs
    /\ files \in [PathNames -> FileContents \cup {Absent, Directory}]
    /\ pc = "context"
    /\ idx = 1
    /\ result = "running"
    /\ stdout = <<>>
    /\ calls = <<>>

Fail ==
    /\ result' = "err"
    /\ pc' = "done"

\* let ctx = autowrap_context(config)?;
Context ==
    /\ UNCHANGED nondrivervars
    /\ pc = "context"
    /\ \E ok \in BOOLEAN :
          IF ok THEN /\ pc' = "paths"
                     /\ UNCHANGED result
                ELSE Fail
    /\ UNCHANGED <<config, files, idx, stdout, calls>>

\* a driver that takes Ok(false) of an explicit path as a skip
PathOutcome_skip_unwrapped(r) ==
    IF r.ret = "Err"
    THEN /\ Fail
         /\ UNCHANGED idx
    ELSE /\ idx' = idx + 1
         /\ UNCHANGED <<pc, result>>

\* what the loop over the explicit paths does with the outcome r:
\* `?` on Err, eyre::ensure!(did_wrap) on Ok(false)
PathOutcome(r) ==
    IF r.ret = "Ok_true"
    THEN /\ idx' = idx + 1
         /\ UNCHANGED <<pc, result>>
    ELSE /\ Fail
         /\ UNCHANGED idx

\* one iteration of `for path in &config.paths`
PathStep ==
    /\ UNCHANGED nondrivervars
    /\ pc = "paths"
    /\ idx <= Len(config.paths)
    /\ LET path == config.paths[idx]
           r == try_autowrap_path(config, files[path])
       IN  /\ calls' = Append(calls, Call("explicit", path, files[path], config))
           /\ PathOutcome(r)
           /\ files' = IF r.ret = "Ok_true"
                       THEN [files EXCEPT ![path] = r.out] ELSE files
           /\ stdout' = IF config.quiet \/ pc' = "done" THEN stdout
                        ELSE Append(stdout, <<"wrapped", path>>)
    /\ UNCHANGED config

\* globs.add(Glob::new(glob)?) ...; globs.build()?
BuildGlobs ==
    /\ UNCHANGED nondrivervars
    /\ pc = "paths"
    /\ idx > Len(config.paths)
    /\ \E ok \in BOOLEAN :
          IF ok THEN /\ pc' = "walk"
                     /\ idx' = 1
                     /\ UNCHANGED result
                ELSE /\ Fail
                     /\ UNCHANGED idx
    /\ UNCHANGED <<config, files, stdout, calls>>

\* a walk that takes a failed glob entry as a failure of that entry only
WalkOutcome_continue_on_err(r) ==
    /\ idx' = idx + 1
    /\ UNCHANGED <<pc, result>>

\* what the walk does with the outcome r of a glob-matched entry:
\* `?` on Err, and on with the next entry after Ok(true) and Ok(false)
WalkOutcome(r) ==
    IF r.ret = "Err"
    THEN /\ Fail
         /\ UNCHANGED idx
    ELSE /\ idx' = idx + 1
         /\ UNCHANGED <<pc, result>>

\* one iteration of `for entry in walkdir`, the entry read without error
WalkStep ==
    /\ UNCHANGED nondrivervars
    /\ pc = "walk"
    /\ idx <= Len(WalkEntries)
    /\ LET path == WalkEntries[idx]
           r == try_autowrap_path(config, files[path])
       IN  IF path \in config.globs
           THEN /\ calls' = Append(calls, Call("glob", path, files[path], config))
                /\ WalkOutcome(r)
                /\ files' = IF r.ret = "Ok_true"
                            THEN [files EXCEPT ![path] = r.out] ELSE files
                /\ stdout' =
                     IF config.quiet \/ r.ret = "Err" THEN stdout
                     ELSE IF r.ret = "Ok_true"
                          THEN Append(stdout, <<"wrapped", path>>)
                          ELSE Append(stdout, <<"skipped", path>>)
           ELSE /\ idx' = idx + 1
                /\ UNCHANGED <<pc, result, files, stdout, calls>>
    /\ UNCHANGED config

\* `let entry = entry?;` with the walk reporting an error
WalkError ==
    /\ UNCHANGED nondrivervars
    /\ pc = "walk"
    /\ idx <= Len(WalkEntries)
    /\ Fail
    /\ calls' = Append(calls, [origin |-> "walk", path |-> WalkEntries[idx],
                               contents |-> files[WalkEntries[idx]],
                               kind |-> "Err", ret |-> "Err"])
    /\ UNCHANGED <<config, files, idx, stdout>>

\* the walk is over: Ok(())
Finish ==
    /\ UNCHANGED nondrivervars
    /\ pc = "walk"
    /\ idx > Len(WalkEntries)
    /\ result' = "ok"
    /\ pc' = "done"
    /\ UNCHANGED <<config, files, idx, stdout, calls>>

DriverNext ==
    \/ Context
    \/ PathStep
    \/ BuildGlobs
    \/ WalkStep
    \/ WalkError
    \/ Finish

LibsIdle ==
    /\ lenv = [idle |-> TRUE]
    /\ lpc = "idle"
    /\ needed_libraries = <<>>
    /\ library_search_paths = <<>>
    /\ resource_library_dirs = <<>>
    /\ found_libraries = {}
    /\ found_library_dirs = {}
    /\ lhist = <<>>

ScriptIdle ==
    /\ script = <<>>
    /\ spc = "idle"
    /\ shebang_line = <<>>
    /\ command_name = <<>>
    /\ arg = <<>>
    /\ command = <<>>

CtxIdle ==
    /\ cenv = [idle |-> TRUE]
    /\ cpc = "idle"
    /\ ci = 0
    /\ link_dependencies = <<>>
    /\ link_dependency_library_paths = <<>>
    /\ link_dependency_paths = <<>>

WrapIdle ==
    /\ wenv = [idle |-> TRUE]
    /\ wpc = "idle"
    /\ fs = [idle |-> TRUE]
    /\ contents = <<>>
    /\ file = [idle |-> TRUE]

Init == DriverInit /\ LibsIdle /\ ScriptIdle /\ CtxIdle /\ WrapIdle

Next == DriverNext

Spec == Init /\ [][Next]_vars

----------------------------------------------------------------------------
(* Claims about the driver, the classifier and the rewrap wrapper (Spec)   *)

Calls == { calls[i] : i \in DOMAIN calls }

\* position of path p among the entries the walk yields (0 when absent)
WalkPos(p) ==
    IF \E i \in DOMAIN WalkEntries : WalkEntries[i] = p
    THEN CHOOSE i \in DOMAIN WalkEntries : WalkEntries[i] = p
    ELSE 0

\* C1, as stated: every call that the classifier sends to the rewrap
\* wrapper ends in a fatal error, whether or not a rewrap policy is
\* configured.
C1_RewrapAlwaysFatal ==
    \A c \in Calls : c.kind = "Rewrap" => c.ret = "Err"

\* C1, amended: a call that the classifier sends to the rewrap wrapper never
\* returns 'wrapped'; it ends in a fatal error exactly when a rewrap policy
\* is configured, and returns 'did not wrap' when none is.
C1_RewrapFatalIffConfigured ==
    \A c \in Calls :
        c.kind = "Rewrap" =>
            /\ c.ret # "Ok_true"
            /\ config.rewrap => c.ret = "Err"
            /\ ~config.rewrap => c.ret = "Ok_false"

C1_Witness ==
    /\ calls # <<>>
    /\ Last(calls).kind = "Rewrap"
    /\ config.rewrap
    /\ Last(calls).ret = "Err"
    /\ result = "err"

\* the verdict the fixed order of rules gives for the contents c of a file
C7_Verdict(c) ==
    CASE c.pack -> "Rewrap"
      [] ~c.pack /\ c.head = "#!" -> "Script"
      [] ~c.pack /\ c.head = "elf" /\ c.interp # "none" -> "DynamicBinary"
      [] ~c.pack /\ c.head = "elf" /\ c.interp = "none" /\ c.is_lib
            -> "SharedLibrary"
      [] OTHER -> "None"

\* C7: every call of autowrap_kind on a readable file returns the verdict of
\* the first matching rule (pack -> Rewrap, '#!' -> Script, ELF with
\* interpreter -> DynamicBinary, ELF shared object without interpreter ->
\* SharedLibrary, else not wrappable without an error); a file that holds a
\* pack and starts with '#!' is Rewrap; and two calls on the same bytes give
\* the same verdict.
C7_ClassifierOrder ==
    /\ \A c \in Calls :
          (c.origin # "walk" /\ c.contents.type = "file") =>
              /\ c.kind = C7_Verdict(c.contents)
              /\ (c.contents.pack /\ c.contents.head = "#!") => c.kind = "Rewrap"
              /\ c.kind = "None" => c.ret = "Ok_false"
    /\ \A c, d \in Calls :
          (c.origin # "walk" /\ d.origin # "walk" /\ c.contents = d.contents)
              => c.kind = d.kind

C7_Witness ==
    /\ Len(calls) = 2
    /\ calls[1].contents.type = "file"
    /\ calls[1].contents.pack
    /\ calls[1].contents.head = "#!"
    /\ calls[1].kind = "Rewrap"
    /\ calls[2].contents = calls[1].contents
    /\ calls[2].kind = "Rewrap"

\* C3: an explicit path whose wrap attempt returns 'did not wrap' is the
\* last thing the driver processes and the batch has failed; a glob-matched
\* entry whose wrap attempt returns 'did not wrap' is printed as skipped
\* (unless quiet), the walk goes on past it, and when nothing after it
\* fails the driver returns success.
C3_ExplicitFatalGlobSkipped ==
    /\ \A i \in DOMAIN calls :
          (calls[i].origin = "explicit" /\ calls[i].ret = "Ok_false") =>
              /\ i = Len(calls)
              /\ result = "err"
              /\ pc = "done"
              /\ idx = i
    /\ (calls # <<>> /\ Last(calls).origin = "glob"
        /\ Last(calls).ret = "Ok_false") =>
              /\ result # "err"
              /\ pc = "walk" => idx > WalkPos(Last(calls).path)
              /\ pc = "done" => result = "ok"
              /\ ~config.quiet =>
                    /\ stdout # <<>>
                    /\ Last(stdout) = <<"skipped", Last(calls).path>>

C3_Witness ==
    /\ Len(calls) = 2
    /\ calls[1].origin = "glob"
    /\ calls[1].ret = "Ok_false"
    /\ calls[1].kind = "DynamicBinary"
    /\ calls[2].origin = "glob"
    /\ calls[2].ret = "Ok_true"
    /\ stdout = << <<"skipped", calls[1].path>>, <<"wrapped", calls[2].path>> >>
    /\ result = "ok"

\* C10, as stated: a fatal error on an explicit path fails the batch, and a
\* fatal error on a glob-matched entry leaves the driver walking on to the
\* remaining entries.
C10_GlobErrorIsPerEntry ==
    \A i \in DOMAIN calls :
        calls[i].ret = "Err" =>
            /\ calls[i].origin = "explicit" => result = "err"
            /\ calls[i].origin = "glob" => result # "err"

\* C10, amended: a fatal error raised while wrapping a path fails the whole
\* batch at once, for an explicitly listed path and for a glob-matched entry
\* alike: it is the last call the driver makes, and the glob-matched entries
\* after it are never processed.
C10_AnyErrorAbortsBatch ==
    \A i \in DOMAIN calls :
        calls[i].ret = "Err" =>
            /\ i = Len(calls)
            /\ result = "err"
            /\ pc = "done"
            /\ calls[i].origin = "glob" => idx = WalkPos(calls[i].path)

C10_Witness ==
    /\ calls # <<>>
    /\ Last(calls).origin = "glob"
    /\ Last(calls).ret = "Err"
    /\ idx < Len(WalkEntries)
    /\ WalkEntries[idx + 1] \in config.globs
    /\ result = "err"

----------------------------------------------------------------------------
(* The library closure resolver: collect_all_library_dirs, with the queue  *)
(* its callers build (autowrap_dynamic_binary, autowrap_shared_library).   *)
(*                                                                         *)
(* The environment lenv, fixed during one resolution:                      *)
(*   needs    : the DT_NEEDED names of each library file (a file that is   *)
(*              not an ELF object behaves as one that needs nothing and    *)
(*              holds no pack: the loop `continue`s before both)           *)
(*   where    : the directory that holds a file of that name: "d1" is on   *)
(*              ctx.link_dependency_library_paths, "d2" is a directory of  *)
(*              the resource tree of an already-packed library, "none"     *)
(*   packed   : the library whose file holds a pack with library_dirs      *)
(*              naming "d2" (or "none")                                    *)
(*   libraries, skip_libraries, extra_libraries, skip_unknown_libraries :  *)
(*              the artifact's needed names and its DynamicLinkingConfig   *)
(***************************************************************************)

LibNames == {"liba", "libb", "libc"}

LibOrder == <<"liba", "libb", "libc">>

\* most needed-library edges among the library files
MaxEdges == 2

\* the names of S, as a list in the order of LibOrder
ListOf(S) == SelectSeq(LibOrder, LAMBDA n : n \in S)

EdgeCount(g) == Cardinality({ e \in LibNames \X LibNames : e[2] \in g[e[1]] })

\* the dependency graphs: the needed names of each library file
Graphs == { g \in [LibNames -> SUBSET LibNames] : EdgeCount(g) <= MaxEdges }

\* where the library files are: at most one is not in "d1"
Wheres ==
    { w \in [LibNames -> {"none", "d1", "d2"}] :
        Cardinality({ n \in LibNames : w[n] # "d1" }) <= 1 }

\* a pack names "d2" exactly when "d2" holds a library
LibEnvs ==
    { e \in [needs : Graphs,
             where : Wheres,
             packed : LibNames \cup {"none"},
             libraries : { ListOf(S) : S \in SUBSET LibNames },
             skip_libraries : { S \in SUBSET LibNames : Cardinality(S) <= 1 },
             extra_libraries : { <<>>, <<"libc">> },
             skip_unknown_libraries : BOOLEAN] :
        (e.packed = "none") <=> (\A n \in LibNames : e.where[n] # "d2") }

\* find_library: the first directory of the search list that holds a file
\* of that name, or "none"
RECURSIVE find_library(_, _)
find_library(paths, name) ==
    IF paths = <<>> THEN "none"
    ELSE IF lenv.where[name] = Head(paths) THEN Head(paths)
    ELSE find_library(Tail(paths), name)

\* the parent directory of the resource path add_named_blob returns for the
\* library: a directory that holds just this library
ResourceDir(name) == <<"aliases", name>>

\* library_elf.libraries of the library file found
LibNeeds(name) == ListOf(lenv.needs[name])

\* the directories of the library's pack that find_in_resource_dirs resolves
LibPackDirs(name) == IF lenv.packed = name THEN <<"d2">> ELSE <<>>

\* the queue the wrappers build: the artifact's needed names that are not
\* in skip_libraries, then extra_libraries
InitialQueue ==
    SelectSeq(lenv.libraries, LAMBDA n : n \notin lenv.skip_libraries)
        \o lenv.extra_libraries

LibsInit ==
    /\ lenv \in LibEnvs
    /\ lpc = "start"
    /\ needed_libraries = <<>>
    /\ library_search_paths = <<>>
    /\ resource_library_dirs = <<>>
    /\ found_libraries = {}
    /\ found_library_dirs = {}
    /\ lhist = <<>>

\* the caller builds the queue; collect_all_library_dirs sets up its locals
Collect ==
    /\ UNCHANGED nonlibvars
    /\ lpc = "start"
    /\ lpc' = "loop"
    /\ needed_libraries' = InitialQueue
    /\ library_search_paths' = <<"d1">>
    /\ UNCHANGED <<lenv, resource_library_dirs, found_libraries,
                   found_library_dirs, lhist>>

Event(ev, name) == [ev |-> ev, name |-> name]

\* a resolver that forgets to record the names it has found
AlreadyFound_never(name) == FALSE

\* a resolver that also remembers the names it did not find
AlreadyFound_or_dropped(name) ==
    \/ name \in found_libraries
    \/ \E i \in DOMAIN lhist : lhist[i] = Event("dropped", name)

\* if found_libraries.contains(&library_name)
AlreadyFound(name) == name \in found_libraries

\* the popped name has been found before: continue
PopFoundBefore ==
    /\ UNCHANGED nonlibvars
    /\ lpc = "loop"
    /\ needed_libraries # <<>>
    /\ AlreadyFound(Head(needed_libraries))
    /\ needed_libraries' = Tail(needed_libraries)
    /\ lhist' = Append(lhist, Event("again", Head(needed_libraries)))
    /\ UNCHANGED <<lenv, lpc, library_search_paths, resource_library_dirs,
                   found_libraries, found_library_dirs>>

\* a resolver that skips every unknown library
SkipUnknown_always == TRUE

\* dynamic_linking_config.skip_unknown_libraries
SkipUnknown == lenv.skip_unknown_libraries

\* the popped name is in no directory of the search list, and unknown
\* libraries are skipped: continue
PopUnknownSkipped ==
    /\ UNCHANGED nonlibvars
    /\ lpc = "loop"
    /\ needed_libraries # <<>>
    /\ ~AlreadyFound(Head(needed_libraries))
    /\ find_library(library_search_paths, Head(needed_libraries)) = "none"
    /\ SkipUnknown
    /\ needed_libraries' = Tail(needed_libraries)
    /\ lhist' = Append(lhist, Event("dropped", Head(needed_libraries)))
    /\ UNCHANGED <<lenv, lpc, library_search_paths, resource_library_dirs,
                   found_libraries, found_library_dirs>>

\* the popped name is in no directory of the search list:
\* eyre::bail!("library not found: {library_name:?}")
PopUnknownFails ==
    /\ UNCHANGED nonlibvars
    /\ lpc = "loop"
    /\ needed_libraries # <<>>
    /\ ~AlreadyFound(Head(needed_libraries))
    /\ find_library(library_search_paths, Head(needed_libraries)) = "none"
    /\ ~SkipUnknown
    /\ lpc' = "err"
    /\ needed_libraries' = Tail(needed_libraries)
    /\ lhist' = Append(lhist, Event("not found", Head(needed_libraries)))
    /\ UNCHANGED <<lenv, library_search_paths, resource_library_dirs,
                   found_libraries, found_library_dirs>>

\* a resolver that stops at a skipped library before reading its file
Expansion_not_of_skipped(name) ==
    IF name \in lenv.skip_libraries THEN <<>> ELSE LibNeeds(name)

\* needed_libraries.extend(library_elf.libraries ...): the names the library
\* found adds to the back of the queue, skipped or not
Expansion(name) == LibNeeds(name)

\* the popped name is found: it is recorded, embedded unless it is in
\* skip_libraries, its needed names are enqueued and the directories of its
\* pack extend the search list
PopFound ==
    /\ UNCHANGED nonlibvars
    /\ lpc = "loop"
    /\ needed_libraries # <<>>
    /\ ~AlreadyFound(Head(needed_libraries))
    /\ find_library(library_search_paths, Head(needed_libraries)) # "none"
    /\ LET name == Head(needed_libraries)
           skipped == name \in lenv.skip_libraries
           dir == ResourceDir(name)
       IN  /\ found_libraries' = found_libraries \cup {name}
           /\ found_library_dirs' =
                 IF skipped THEN found_library_dirs
                 ELSE found_library_dirs \cup {dir}
           /\ resource_library_dirs' =
                 IF skipped \/ dir \in found_library_dirs
                 THEN resource_library_dirs
                 ELSE Append(resource_library_dirs, dir)
           /\ lhist' = Append(lhist,
                 Event(IF skipped THEN "skipped" ELSE "embedded", name))
           /\ needed_libraries' = Tail(needed_libraries) \o Expansion(name)
           /\ library_search_paths' = library_search_paths \o LibPackDirs(name)
    /\ UNCHANGED <<lenv, lpc>>

\* the queue is empty: Ok(resource_library_dirs)
CollectDone ==
    /\ UNCHANGED nonlibvars
    /\ lpc = "loop"
    /\ needed_libraries = <<>>
    /\ lpc' = "ok"
    /\ UNCHANGED <<lenv, needed_libraries, library_search_paths,
                   resource_library_dirs, found_libraries, found_library_dirs,
                   lhist>>

LibsNext ==
    \/ Collect
    \/ PopFoundBefore
    \/ PopUnknownSkipped
    \/ PopUnknownFails
    \/ PopFound
    \/ CollectDone

DriverIdle ==
    /\ config = [idle |-> TRUE]
    /\ files = [idle |-> TRUE]
    /\ pc = "idle"
    /\ idx = 0
    /\ result = "idle"
    /\ stdout = <<>>
    /\ calls = <<>>

InitLibs == LibsInit /\ DriverIdle /\ ScriptIdle /\ CtxIdle /\ WrapIdle

SpecLibs == InitLibs /\ [][LibsNext]_vars

----------------------------------------------------------------------------
(* Claims about the library closure resolver (SpecLibs)                    *)

\* the names handed to add_named_blob_from, in order
Embedded == SelectSeq(lhist, LAMBDA e : e.ev = "embedded")

EmbeddedNames == { Embedded[i].name : i \in DOMAIN Embedded }

OutputDirs == { resource_library_dirs[i] : i \in DOMAIN resource_library_dirs }

\* C4: in one run no library name is embedded twice and no directory is
\* twice in the output list, whatever the dependency graph.
C4_NoDoubleEmbedding ==
    /\ \A i, j \in DOMAIN Embedded :
          Embedded[i].name = Embedded[j].name => i = j
    /\ \A i, j \in DOMAIN resource_library_dirs :
          resource_library_dirs[i] = resource_library_dirs[j] => i = j

\* two libraries of the artifact both need libc: libc is demanded twice and
\* embedded once
C4_Witness ==
    /\ lpc = "ok"
    /\ lenv.libraries = <<"liba", "libb">>
    /\ lenv.needs["liba"] = {"libc"}
    /\ lenv.needs["libb"] = {"libc"}
    /\ Len(resource_library_dirs) = 3
    /\ \E i \in DOMAIN lhist : lhist[i] = Event("again", "libc")
    /\ \E i \in DOMAIN lhist : lhist[i] = Event("embedded", "libc")

\* the skipped library s is demanded by a library the resolver found, or by
\* extra_libraries
DemandedInClosure(s) ==
    \/ \E i \in DOMAIN lenv.extra_libraries : lenv.extra_libraries[i] = s
    \/ \E l \in found_libraries : s \in lenv.needs[l]

\* the skipped library s is needed by the artifact being wrapped
DemandedByArtifact(s) ==
    \E i \in DOMAIN lenv.libraries : lenv.libraries[i] = s

\* the libraries that s needs, that are not skipped and that the initial
\* search path holds, are all embedded
NeedsOfSkippedEmbedded(s) ==
    \A t \in lenv.needs[s] \ lenv.skip_libraries :
        lenv.where[t] = "d1" => t \in EmbeddedNames

NeverEmbedded(s) ==
    /\ s \notin EmbeddedNames
    /\ ResourceDir(s) \notin OutputDirs

\* C5, as stated: a library of skip_libraries is never embedded and its
\* directory is never in the output, and when the resolution has returned
\* the libraries it needs are embedded, wherever it was demanded: by the
\* artifact being wrapped or by another library of the closure.
C5_SkippedDepsWhereverDemanded ==
    \A s \in lenv.skip_libraries :
        /\ NeverEmbedded(s)
        /\ (lpc = "ok" /\ lenv.where[s] = "d1"
            /\ (DemandedByArtifact(s) \/ DemandedInClosure(s)))
              => NeedsOfSkippedEmbedded(s)

\* C5, amended: a library of skip_libraries is never embedded and its
\* directory is never in the output; when it is demanded by another library
\* of the closure or by extra_libraries, the libraries it needs are
\* enqueued, resolved and embedded. (Demanded only by the artifact being
\* wrapped, it is filtered out before the resolution and its needed
\* libraries are not looked at.)
C5_SkippedDepsWhenDemandedInClosure ==
    \A s \in lenv.skip_libraries :
        /\ NeverEmbedded(s)
        /\ (lpc = "ok" /\ lenv.where[s] = "d1" /\ DemandedInClosure(s))
              => NeedsOfSkippedEmbedded(s)

\* liba needs the skipped libb, and libb alone needs libc: libc is embedded
C5_Witness ==
    /\ lpc = "ok"
    /\ lenv.libraries = <<"liba">>
    /\ lenv.extra_libraries = <<>>
    /\ lenv.skip_libraries = {"libb"}
    /\ lenv.needs = [n \in LibNames |->
                        CASE n = "liba" -> {"libb"}
                          [] n = "libb" -> {"libc"}
                          [] OTHER -> {}]
    /\ lhist = <<Event("embedded", "liba"), Event("skipped", "libb"),
                 Event("embedded", "libc")>>
    /\ resource_library_dirs = <<ResourceDir("liba"), ResourceDir("libc")>>

\* the iteration at hand pops a name that is in no directory of the search
\* list
UnknownAtHead ==
    /\ lpc = "loop"
    /\ needed_libraries # <<>>
    /\ Head(needed_libraries) \notin found_libraries
    /\ find_library(library_search_paths, Head(needed_libraries)) = "none"

\* C6: when the popped name is in no directory of the current search list,
\* skip_unknown_libraries = true drops the name (nothing is added to the
\* output, to the found sets or to the search list) and the loop goes on
\* with the rest of the queue; skip_unknown_libraries = false ends the
\* resolution with an error that names the library, and no list is returned.
C6_UnknownLibrary ==
    /\ [][ UnknownAtHead =>
             IF lenv.skip_unknown_libraries
             THEN /\ lpc' = "loop"
                  /\ needed_libraries' = Tail(needed_libraries)
                  /\ lhist' = Append(lhist, Event("dropped", Head(needed_libraries)))
                  /\ UNCHANGED <<resource_library_dirs, found_libraries,
                                 found_library_dirs, library_search_paths>>
             ELSE /\ lpc' = "err"
                  /\ lhist' = Append(lhist, Event("not found", Head(needed_libraries)))
                  /\ UNCHANGED resource_library_dirs ]_vars
    /\ [](lpc = "err" => /\ ~lenv.skip_unknown_libraries
                         /\ lhist # <<>>
                         /\ Last(lhist).ev = "not found")
    /\ [](lpc = "ok" => \A i \in DOMAIN lhist : lhist[i].ev # "not found")

\* an unknown name was dropped, and a library popped after it was embedded
C6_Witness ==
    /\ lpc = "ok"
    /\ lenv.skip_unknown_libraries
    /\ Len(lhist) = 2
    /\ lhist[1].ev = "dropped"
    /\ lenv.where[lhist[1].name] = "none"
    /\ lhist[2].ev = "embedded"
    /\ resource_library_dirs = <<ResourceDir(lhist[2].name)>>

\* an unknown name ended the resolution with libraries still queued
C6_WitnessFail ==
    /\ lpc = "err"
    /\ Last(lhist).ev = "not found"
    /\ needed_libraries # <<>>

----------------------------------------------------------------------------
(* Termination of the library closure resolver (SpecLibsFair)              *)
(*                                                                         *)
(* collect_all_library_dirs is one sequential loop in one thread: an       *)
(* iteration that can run does run, which is weak fairness of the step.    *)

\* the resolutions whose queue holds the artifact's needed names alone
InitLibsFair == InitLibs /\ lenv.extra_libraries = <<>>

SpecLibsFair == InitLibsFair /\ [][LibsNext]_vars /\ WF_vars(LibsNext)

\* the resolution has returned: Ok(resource_library_dirs) or an error
Returned == lpc \in {"ok", "err"}

\* the needed-library edges that leave the libraries found so far
ExpandedEdges ==
    { e \in LibNames \X LibNames :
        e[1] \in found_libraries /\ e[2] \in lenv.needs[e[1]] }

\* every name ever queued has been popped or is still queued, and a name is
\* queued by the caller or by the one expansion of a library found
WorkBounded ==
    lpc # "start" =>
        Len(lhist) + Len(needed_libraries)
            = Len(InitialQueue) + Cardinality(ExpandedEdges)

\* C11: for every set of library files and every dependency graph among
\* them, cycles and self-dependencies included, and under both values of
\* skip_unknown_libraries, the resolution eventually returns (the queue is
\* empty, or an error is returned); the number of names it pops never
\* exceeds the names the caller queued plus the needed-library edges of the
\* libraries found.
C11_Terminates ==
    /\ <>Returned
    /\ []WorkBounded

\* a resolution over a cycle (two libraries that need each other, or one
\* that needs itself) has returned with the queue empty: the name demanded
\* again was discarded
C11_Witness ==
    /\ lpc = "ok"
    /\ needed_libraries = <<>>
    /\ \E a, b \in LibNames :
          /\ a \in lenv.needs[b]
          /\ b \in lenv.needs[a]
          /\ {a, b} \subseteq found_libraries
          /\ \E i \in DOMAIN lhist : lhist[i] = Event("again", a)

----------------------------------------------------------------------------
(* Names that are not found, and the growing search list (SpecLibs)        *)

\* the iterations that found a library
FoundEvents == {"embedded", "skipped"}

\* the name was found by an iteration before the j-th
FoundBefore(j, name) ==
    \E i \in 1..(j - 1) : lhist[i].name = name /\ lhist[i].ev \in FoundEvents

\* the directories of the search list at the j-th iteration: the link
\* dependencies' directory, and the directory of a pack once the library
\* that holds the pack has been found
SearchedAt(j) ==
    IF lenv.packed # "none" /\ FoundBefore(j, lenv.packed)
    THEN {"d1", "d2"}
    ELSE {"d1"}

\* C12: with skip_unknown_libraries = true, a name that is not found is not
\* put in found_libraries: found_libraries holds the names found and no
\* other, and a name is discarded as already resolved only when an earlier
\* iteration found it. Each other demand of a name searches the list as it
\* is then: the name is dropped when its file is in no directory searched at
\* that iteration, and found when it is, so a name dropped before the
\* library whose pack names its directory was found is found, and embedded
\* unless skipped, when it is demanded again afterwards.
C12_DroppedNameIsSearchedAgain ==
    lenv.skip_unknown_libraries =>
        /\ found_libraries =
              { lhist[i].name : i \in { k \in DOMAIN lhist : lhist[k].ev \in FoundEvents } }
        /\ \A j \in DOMAIN lhist :
              LET name == lhist[j].name
                  here == lenv.where[name] \in SearchedAt(j)
              IN  /\ lhist[j].ev = "again" <=> FoundBefore(j, name)
                  /\ lhist[j].ev = "dropped" <=> ~FoundBefore(j, name) /\ ~here
                  /\ lhist[j].ev \in FoundEvents <=> ~FoundBefore(j, name) /\ here

\* a name was dropped, the library whose pack names its directory was found
\* after that, and the name, demanded again, was embedded
C12_Witness ==
    /\ lpc = "ok"
    /\ lenv.skip_unknown_libraries
    /\ \E i, k, j \in DOMAIN lhist :
          /\ i < k /\ k < j
          /\ lhist[i].ev = "dropped"
          /\ lenv.where[lhist[i].name] = "d2"
          /\ lhist[k] = Event("embedded", lenv.packed)
          /\ lhist[j] = Event("embedded", lhist[i].name)
          /\ ResourceDir(lhist[i].name) \in OutputDirs

\* the other order of demands: the name was dropped, the library whose pack
\* names its directory was found after that, nothing demanded the name
\* again, and the resolution returned without it
C12_WitnessNotEmbedded ==
    /\ lpc = "ok"
    /\ lenv.skip_unknown_libraries
    /\ \E i, k \in DOMAIN lhist :
          /\ i < k
          /\ lhist[i].ev = "dropped"
          /\ lenv.where[lhist[i].name] = "d2"
          /\ lhist[k] = Event("embedded", lenv.packed)
          /\ lhist[i].name \notin found_libraries
          /\ ResourceDir(lhist[i].name) \notin OutputDirs

----------------------------------------------------------------------------
(* The script wrapper autowrap_script, from the read of the shebang line   *)
(* to the search of the command. A string is the sequence of its           *)
(* characters.                                                             *)

NameEnv == <<"e", "n", "v">>

NamePython == <<"p", "y", "t", "h", "o", "n", "3">>

NamePythonU == <<"p", "y", "t", "h", "o", "n", "3", " ", "-", "u">>

NameSh == <<"s", "h">>

NameTrue == <<"t", "r", "u", "e">>

ArgE == <<"-", "e">>

\* #!/usr/bin/env python3 -u
LineEnvPython ==
    <<"/", "u", "s", "r", "/", "b", "i", "n", "/", "e", "n", "v", " ", "p", "y", "t", "h", "o", "n", "3", " ", "-", "u">>

\* #!/usr/bin/env python3
LineEnvPythonOnly ==
    <<"/", "u", "s", "r", "/", "b", "i", "n", "/", "e", "n", "v", " ", "p", "y", "t", "h", "o", "n", "3">>

\* #!/usr/bin/env
LineEnvAlone ==
    <<"/", "u", "s", "r", "/", "b", "i", "n", "/", "e", "n", "v">>

\* #!/bin/sh -e
LineShE ==
    <<"/", "b", "i", "n", "/", "s", "h", " ", "-", "e">>

\* #!/bin/true
LineTrue ==
    <<"/", "b", "i", "n", "/", "t", "r", "u", "e">>

\* #! /bin/sh  -e -x 
LineShTwoArgs ==
    <<" ", "/", "b", "i", "n", "/", "s", "h", " ", " ", "-", "e", " ", "-", "x", " ">>

\* longest enumerated first line
MaxLine == 5

LineChars == {"/", "\\", " ", "e", "n", "v"}

Lines ==
    SeqsUpTo(LineChars, MaxLine)
        \cup {LineEnvPython, LineEnvPythonOnly, LineEnvAlone, LineShE,
              LineTrue, LineShTwoArgs}

\* ctx.link_dependency_paths: the regular files of each directory
CommandDirs ==
    << {NameSh, <<"e">>},
       {NamePython, NameSh, NameTrue, NameEnv, <<"v">>} >>

Whitespace == {" ", "\t", "\n", "\r"}

RECURSIVE trim_start(_)
trim_start(s) ==
    IF s # <<>> /\ Head(s) \in Whitespace THEN trim_start(Tail(s)) ELSE s

RECURSIVE trim_end(_)
trim_end(s) ==
    IF s # <<>> /\ s[Len(s)] \in Whitespace
    THEN trim_end(SubSeq(s, 1, Len(s) - 1))
    ELSE s

\* str::trim
trim(s) == trim_end(trim_start(s))

\* str::split_once(|c| c.is_ascii_whitespace()): the parts before and after
\* the first whitespace character, or <<>> for None
split_once(s) ==
    LET ws == { i \in DOMAIN s : s[i] \in Whitespace }
    IN  IF ws = {} THEN <<>>
        ELSE LET i == CHOOSE k \in ws : \A j \in ws : k <= j
             IN  << SubSeq(s, 1, i - 1), SubSeq(s, i + 1, Len(s)) >>

\* command_path.split(|c| matches!(c, '/' | '\\')).last()
last_component(s) ==
    LET seps == { i \in DOMAIN s : s[i] \in {"/", "\\"} }
    IN  IF seps = {} THEN s
        ELSE LET i == CHOOSE k \in seps : \A j \in seps : j <= k
             IN  SubSeq(s, i + 1, Len(s))

Parsed(name, a) == [err |-> FALSE, command_name |-> name, arg |-> a]

ParseError == [err |-> TRUE, command_name |-> <<>>, arg |-> <<>>]

\* a parser that splits the argument of env once more: the first word is the
\* command, the rest is dropped
parse_shebang_env_first_word(line) ==
    LET l == trim(line)
        parts == split_once(l)
        command_path == IF parts = <<>> THEN l ELSE trim(parts[1])
        a == IF parts = <<>> THEN <<>> ELSE trim(parts[2])
        name == last_component(command_path)
        inner == split_once(a)
    IN  IF name = NameEnv
        THEN IF a = <<>> THEN ParseError
             ELSE Parsed(IF inner = <<>> THEN a ELSE inner[1], <<>>)
        ELSE Parsed(name, a)

\* lines 438-454: the command name and the literal argument of the line
\* (the argument <<>> stands for None: an empty argument is filtered out)
parse_shebang(line) ==
    LET l == trim(line)
        parts == split_once(l)
        command_path == IF parts = <<>> THEN l ELSE trim(parts[1])
        a == IF parts = <<>> THEN <<>> ELSE trim(parts[2])
        name == last_component(command_path)
    IN  IF name = NameEnv
        THEN IF a = <<>> THEN ParseError ELSE Parsed(a, <<>>)
        ELSE Parsed(name, a)

\* lines 455-461: the first directory that holds a regular file of the name
find_command(name) ==
    LET hits == { i \in DOMAIN CommandDirs : name \in CommandDirs[i] }
    IN  IF hits = {} THEN <<>>
        ELSE << CHOOSE k \in hits : \A j \in hits : k <= j, name >>

ScriptInit ==
    /\ script \in Lines
    /\ spc = "start"
    /\ shebang_line = <<>>
    /\ command_name = <<>>
    /\ arg = <<>>
    /\ command = <<>>

\* script_file.read_line(&mut shebang_line): the rest of the first line,
\* with its newline unless the file ends there
ReadLine ==
    /\ UNCHANGED nonscriptvars
    /\ spc = "start"
    /\ \E newline \in {<<>>, <<"\n">>, <<"\r", "\n">>} :
          shebang_line' = script \o newline
    /\ spc' = "read"
    /\ UNCHANGED <<script, command_name, arg, command>>

ParseLine ==
    /\ UNCHANGED nonscriptvars
    /\ spc = "read"
    /\ LET p == parse_shebang(shebang_line)
       IN  IF p.err
           THEN /\ spc' = "err_env"
                /\ UNCHANGED <<command_name, arg>>
           ELSE /\ spc' = "parsed"
                /\ command_name' = p.command_name
                /\ arg' = p.arg
    /\ UNCHANGED <<script, shebang_line, command>>

SearchCommand ==
    /\ UNCHANGED nonscriptvars
    /\ spc = "parsed"
    /\ command' = find_command(command_name)
    /\ spc' = IF command' = <<>> THEN "err_not_found" ELSE "found"
    /\ UNCHANGED <<script, shebang_line, command_name, arg>>

ScriptNext ==
    \/ ReadLine
    \/ ParseLine
    \/ SearchCommand

InitScript == ScriptInit /\ DriverIdle /\ LibsIdle /\ CtxIdle /\ WrapIdle

SpecScript == InitScript /\ [][ScriptNext]_vars

----------------------------------------------------------------------------
(* Claims about the shebang line (SpecScript)                              *)

RECURSIVE DropWs(_)
DropWs(s) == IF s # <<>> /\ Head(s) \in Whitespace THEN DropWs(Tail(s)) ELSE s

RECURSIVE DropWord(_)
DropWord(s) ==
    IF s # <<>> /\ Head(s) \notin Whitespace THEN DropWord(Tail(s)) ELSE s

RECURSIVE TakeWord(_)
TakeWord(s) ==
    IF s # <<>> /\ Head(s) \notin Whitespace
    THEN <<Head(s)>> \o TakeWord(Tail(s))
    ELSE <<>>

\* the words of a line: its maximal runs of characters that are not
\* whitespace
RECURSIVE Words(_)
Words(s) ==
    LET t == DropWs(s)
    IN  IF t = <<>> THEN <<>>
        ELSE <<TakeWord(t)>> \o Words(DropWord(t))

RECURSIVE DropWsAtEnd(_)
DropWsAtEnd(s) ==
    IF s # <<>> /\ s[Len(s)] \in Whitespace
    THEN DropWsAtEnd(SubSeq(s, 1, Len(s) - 1))
    ELSE s

\* the rest of the line after its first word, without the whitespace around
RestOfLine(s) == DropWsAtEnd(DropWs(DropWord(DropWs(s))))

\* the basename of a command path: what follows its last separator
RECURSIVE Basename(_)
Basename(w) ==
    IF w = <<>> THEN <<>>
    ELSE IF w[Len(w)] \in {"/", "\\"} THEN <<>>
    ELSE Basename(SubSeq(w, 1, Len(w) - 1)) \o <<w[Len(w)]>>

LineParsed == spc \in {"parsed", "found", "err_not_found"}

\* the two cases of the claim that do not go through env
NonEnvCases ==
    LET w == Words(script)
    IN  /\ (Len(w) >= 2 /\ Basename(w[1]) # NameEnv) =>
              /\ command_name = Basename(w[1])
              /\ arg = RestOfLine(script)
        /\ (Len(w) = 1 /\ Basename(w[1]) # NameEnv) =>
              /\ command_name = Basename(w[1])
              /\ arg = <<>>
        /\ script = LineShE => (command_name = NameSh /\ arg = ArgE)
        /\ script = LineTrue => (command_name = NameTrue /\ arg = <<>>)

\* C2, as stated: after a line 'env <cmd> <rest>' the name searched is <cmd>
\* alone and no literal argument is left; after a line '<path> <arg>' the
\* name is the basename and the argument the rest of the line; after a line
\* '<path>' the name is the basename and there is no argument.
C2_EnvCommandIsFirstWord ==
    LineParsed =>
        LET w == Words(script)
        IN  /\ (Len(w) >= 2 /\ Basename(w[1]) = NameEnv) =>
                  /\ command_name = w[2]
                  /\ arg = <<>>
            /\ script = LineEnvPython =>
                  (command_name = NamePython /\ arg = <<>>)
            /\ NonEnvCases

\* C2, amended: after a line 'env <cmd> <rest>' the name searched is the
\* whole rest of the line after env, '<cmd> <rest>' ('python3 -u'), and no
\* literal argument is left; the two other cases are as stated.
C2_EnvCommandIsRestOfLine ==
    LineParsed =>
        LET w == Words(script)
        IN  /\ (Len(w) >= 2 /\ Basename(w[1]) = NameEnv) =>
                  /\ command_name = RestOfLine(script)
                  /\ arg = <<>>
            /\ script = LineEnvPython =>
                  (command_name = NamePythonU /\ arg = <<>>)
            /\ script = LineEnvPythonOnly =>
                  (command_name = NamePython /\ arg = <<>>)
            /\ NonEnvCases

\* '#!/usr/bin/env python3 -u': the command 'python3 -u' is searched, and
\* not found in directories that hold python3
C2_Witness ==
    /\ script = LineEnvPython
    /\ spc = "err_not_found"
    /\ command_name = NamePythonU
    /\ arg = <<>>
    /\ find_command(NamePython) # <<>>

----------------------------------------------------------------------------
(* The context builder autowrap_context.                                   *)
(*                                                                         *)
(* The environment cenv: self_dependency, config.link_dependencies, and    *)
(* for each root the state of brioche-env.d/env/LIBRARY_PATH, of           *)
(* brioche-env.d/env/PATH and of bin:                                      *)
(*   "missing"    read_dir fails with NotFound                             *)
(*   "unreadable" read_dir fails with another error                        *)
(*   "links"      the directory holds two symlinks                         *)
(*   "notlink"    the directory holds a symlink, then a regular file       *)
(* An element of a search list is the canonical path pushed, together with *)
(* the position in link_dependencies of the root that contributed it.      *)
(***************************************************************************)

\* longest config.link_dependencies
MaxLinkDeps == 2

DepRoots == {"dep1", "dep2"}

EnvDirStates == {"missing", "unreadable", "links", "notlink"}

RootDirs == [library_path : EnvDirStates, path : EnvDirStates, bin : BOOLEAN]

\* the recipe root, and a root that is not a link dependency
PlainRoot == [library_path |-> "links", path |-> "links", bin |-> TRUE]

SeqRange(q) == { q[i] : i \in DOMAIN q }

CtxEnvs ==
    { e \in [self_dependency : BOOLEAN,
             link_dependencies : SeqsUpTo(DepRoots, MaxLinkDeps),
             dirs : [DepRoots \cup {"recipe"} -> RootDirs]] :
        /\ e.dirs["recipe"] = PlainRoot
        /\ \A r \in DepRoots \ SeqRange(e.link_dependencies) :
              e.dirs[r] = PlainRoot }

Entry(from, root, kind, k) == [from |-> from, path |-> <<root, kind, k>>]

\* the entries one iteration over an env directory pushes before it ends,
\* and whether it ends in an error
EnvDirEntries(state, from, root, kind) ==
    CASE state = "links" -> << Entry(from, root, kind, 1), Entry(from, root, kind, 2) >>
      [] state = "notlink" -> << Entry(from, root, kind, 1) >>
      [] OTHER -> <<>>

EnvDirFails(state) == state \in {"unreadable", "notlink"}

\* <root>/bin, pushed if it is a directory
BinEntries(from, root) ==
    IF cenv.dirs[root].bin THEN << Entry(from, root, "bin", 1) >> ELSE <<>>

\* a loop over PATH that adds the root's bin right after its symlinks
PathLoopEntries_with_bin(from, root) ==
    EnvDirEntries(cenv.dirs[root].path, from, root, "PATH")
        \o (IF EnvDirFails(cenv.dirs[root].path) THEN <<>>
            ELSE BinEntries(from, root))

\* what the second loop (lines 150-177) pushes for one root
PathLoopEntries(from, root) ==
    EnvDirEntries(cenv.dirs[root].path, from, root, "PATH")

CtxInit ==
    /\ cenv \in CtxEnvs
    /\ cpc = "start"
    /\ ci = 0
    /\ link_dependencies = <<>>
    /\ link_dependency_library_paths = <<>>
    /\ link_dependency_paths = <<>>

CtxFail ==
    /\ cpc' = "err"
    /\ UNCHANGED ci

\* lines 103-112: the resource directories are found (or not), and the list
\* of link dependencies is built
CtxStart ==
    /\ UNCHANGED nonctxvars
    /\ cpc = "start"
    /\ \E ok \in BOOLEAN :
          IF ok
          THEN /\ link_dependencies' =
                     (IF cenv.self_dependency THEN <<"recipe">> ELSE <<>>)
                         \o cenv.link_dependencies
               /\ cpc' = "library_path"
               /\ ci' = 1
          ELSE /\ CtxFail
               /\ UNCHANGED link_dependencies
    /\ UNCHANGED <<cenv, link_dependency_library_paths, link_dependency_paths>>

\* one iteration of the first loop (lines 116-148)
LibraryPathStep ==
    /\ UNCHANGED nonctxvars
    /\ cpc = "library_path"
    /\ ci <= Len(link_dependencies)
    /\ LET root == link_dependencies[ci]
           state == cenv.dirs[root].library_path
       IN  /\ link_dependency_library_paths' =
                 link_dependency_library_paths
                     \o EnvDirEntries(state, ci, root, "LIBRARY_PATH")
           /\ IF EnvDirFails(state) THEN CtxFail
              ELSE /\ ci' = ci + 1
                   /\ UNCHANGED cpc
    /\ UNCHANGED <<cenv, link_dependencies, link_dependency_paths>>

LibraryPathDone ==
    /\ UNCHANGED nonctxvars
    /\ cpc = "library_path"
    /\ ci > Len(link_dependencies)
    /\ cpc' = "path"
    /\ ci' = 1
    /\ UNCHANGED <<cenv, link_dependencies, link_dependency_library_paths,
                   link_dependency_paths>>

\* one iteration of the second loop (lines 150-177)
EnvPathStep ==
    /\ UNCHANGED nonctxvars
    /\ cpc = "path"
    /\ ci <= Len(link_dependencies)
    /\ LET root == link_dependencies[ci]
       IN  /\ link_dependency_paths' =
                 link_dependency_paths \o PathLoopEntries(ci, root)
           /\ IF EnvDirFails(cenv.dirs[root].path) THEN CtxFail
              ELSE /\ ci' = ci + 1
                   /\ UNCHANGED cpc
    /\ UNCHANGED <<cenv, link_dependencies, link_dependency_library_paths>>

EnvPathDone ==
    /\ UNCHANGED nonctxvars
    /\ cpc = "path"
    /\ ci > Len(link_dependencies)
    /\ cpc' = "bin"
    /\ ci' = 1
    /\ UNCHANGED <<cenv, link_dependencies, link_dependency_library_paths,
                   link_dependency_paths>>

\* one iteration of the third loop (lines 179-185)
BinStep ==
    /\ UNCHANGED nonctxvars
    /\ cpc = "bin"
    /\ ci <= Len(link_dependencies)
    /\ link_dependency_paths' =
          link_dependency_paths \o BinEntries(ci, link_dependencies[ci])
    /\ ci' = ci + 1
    /\ UNCHANGED <<cenv, cpc, link_dependencies, link_dependency_library_paths>>

\* Ok(AutowrapContext { .. })
CtxDone ==
    /\ UNCHANGED nonctxvars
    /\ cpc = "bin"
    /\ ci > Len(link_dependencies)
    /\ cpc' = "ok"
    /\ UNCHANGED <<cenv, ci, link_dependencies, link_dependency_library_paths,
                   link_dependency_paths>>

CtxNext ==
    \/ CtxStart
    \/ LibraryPathStep
    \/ LibraryPathDone
    \/ EnvPathStep
    \/ EnvPathDone
    \/ BinStep
    \/ CtxDone

InitCtx == CtxInit /\ DriverIdle /\ LibsIdle /\ ScriptIdle /\ WrapIdle

SpecCtx == InitCtx /\ [][CtxNext]_vars

----------------------------------------------------------------------------
(* Claims about the context (SpecCtx)                                      *)

\* in the list, what an earlier root contributed comes before what a later
\* root contributed
RootOrdered(list) ==
    \A i, j \in DOMAIN list : list[i].from < list[j].from => i < j

KindOf(e) == e.path[2]

Only(list, kind) == SelectSeq(list, LAMBDA e : KindOf(e) = kind)

\* once the context is built, the command list holds the targets of every
\* root's env/PATH symlinks and every root's bin directory
CommandListComplete ==
    cpc = "ok" =>
        \A k \in DOMAIN link_dependencies :
            LET root == link_dependencies[k]
                paths == { link_dependency_paths[i].path :
                               i \in DOMAIN link_dependency_paths }
            IN  /\ cenv.dirs[root].path = "links" =>
                      {<<root, "PATH", 1>>, <<root, "PATH", 2>>} \subseteq paths
                /\ cenv.dirs[root].bin => <<root, "bin", 1>> \in paths
                /\ (k = 1 /\ cenv.self_dependency) => root = "recipe"

\* C9, as stated: in the library search list and in the command search
\* list, every directory of an earlier root comes before every directory of
\* a later root; the command list holds each root's env/PATH targets and
\* its bin directory.
C9_EarlierRootFirst ==
    /\ RootOrdered(link_dependency_library_paths)
    /\ RootOrdered(link_dependency_paths)
    /\ CommandListComplete

\* C9, amended: the library search list is in root order. The command
\* search list is all the env/PATH symlink targets in root order, followed
\* by all the bin directories in root order: the bin directory of an
\* earlier root comes after the env/PATH targets of every later root.
C9_RootOrderWithinEachGroup ==
    /\ RootOrdered(link_dependency_library_paths)
    /\ RootOrdered(Only(link_dependency_paths, "PATH"))
    /\ RootOrdered(Only(link_dependency_paths, "bin"))
    /\ \A i, j \in DOMAIN link_dependency_paths :
          (KindOf(link_dependency_paths[i]) = "PATH"
           /\ KindOf(link_dependency_paths[j]) = "bin") => i < j
    /\ \A i \in DOMAIN link_dependency_paths :
          KindOf(link_dependency_paths[i]) \in {"PATH", "bin"}
    /\ CommandListComplete

\* the recipe root and two link dependencies, each with two PATH symlinks
\* and a bin directory
C9_Witness ==
    /\ cpc = "ok"
    /\ link_dependencies = <<"recipe", "dep1", "dep2">>
    /\ Len(link_dependency_library_paths) = 6
    /\ link_dependency_paths =
          << Entry(1, "recipe", "PATH", 1), Entry(1, "recipe", "PATH", 2),
             Entry(2, "dep1", "PATH", 1), Entry(2, "dep1", "PATH", 2),
             Entry(3, "dep2", "PATH", 1), Entry(3, "dep2", "PATH", 2),
             Entry(1, "recipe", "bin", 1), Entry(2, "dep1", "bin", 1),
             Entry(3, "dep2", "bin", 1) >>

----------------------------------------------------------------------------
(* The shared library wrapper autowrap_shared_library, with the bytes of   *)
(* the files it reads and writes.                                          *)
(*                                                                         *)
(* The environment wenv: output_path ("src" is source_path itself), the    *)
(* bytes of the serialized pack, whether a shared-library policy is        *)
(* configured, whether goblin parses the source as an ELF object and       *)
(* whether collect_all_library_dirs succeeds, and the bytes source_path    *)
(* held when the wrapper was called.                                       *)
(***************************************************************************)

\* longest file, in bytes
MaxBytes == 2

Bytes == {"x", "y"}

Missing == [exists |-> FALSE, bytes |-> <<>>]

Existing(b) == [exists |-> TRUE, bytes |-> b]

PackBytes == { <<"P">>, <<"P", "K">> }

WrapEnvs ==
    [output_path : {"src", "out"},
     pack : PackBytes,
     shared_library : BOOLEAN,
     elf : BOOLEAN,
     resolves : BOOLEAN,
     original : SeqsUpTo(Bytes, MaxBytes)]

\* an open file: its path, whether every write goes to the end of the file
\* (O_APPEND), and the position of the next write otherwise
Handle(path, append, pos) == [path |-> path, append |-> append, pos |-> pos]

NoHandle == [idle |-> TRUE]

\* the bytes of a file after `bytes` are written at position pos
WriteAt(old, pos, bytes) ==
    SubSeq(old, 1, pos) \o bytes
        \o SubSeq(old, pos + Len(bytes) + 1, Len(old))

\* Write::write_all on an open file
write_all(files0, h, bytes) ==
    [files0 EXCEPT ![h.path] =
        Existing(IF h.append THEN files0[h.path].bytes \o bytes
                 ELSE WriteAt(files0[h.path].bytes, h.pos, bytes))]

\* brioche_pack::inject_pack(file, &pack): the serialized pack is written to
\* the open file
inject_pack(files0, h, pack) == write_all(files0, h, pack)

\* an output file opened for writing from its start when output_path is
\* source_path
open_output_write(files0, source, output, read) ==
    IF source = output
    THEN [fs |-> files0, file |-> Handle(output, FALSE, 0)]
    ELSE LET created == [files0 EXCEPT ![output] = Existing(<<>>)]
             h == Handle(output, FALSE, 0)
         IN  [fs |-> write_all(created, h, read),
              file |-> Handle(output, FALSE, Len(read))]

\* lines 404-410: the output file, opened for append when output_path is
\* source_path, created and filled with the bytes read otherwise
open_output(files0, source, output, read) ==
    IF source = output
    THEN [fs |-> files0, file |-> Handle(output, TRUE, 0)]
    ELSE LET created == [files0 EXCEPT ![output] = Existing(<<>>)]
             h == Handle(output, FALSE, 0)
         IN  [fs |-> write_all(created, h, read),
              file |-> Handle(output, FALSE, Len(read))]

WrapInit ==
    /\ wenv \in WrapEnvs
    /\ wpc = "start"
    /\ fs \in { [src |-> Existing(wenv.original), out |-> o] :
                  o \in {Missing} \cup { Existing(b) : b \in SeqsUpTo(Bytes, MaxBytes) } }
    /\ contents = <<>>
    /\ file = NoHandle

\* lines 355-359: no policy, Ok(false); else the source is read
ShlibRead ==
    /\ UNCHANGED nonwrapvars
    /\ wpc = "start"
    /\ IF wenv.shared_library
       THEN /\ contents' = fs["src"].bytes
            /\ wpc' = "read"
       ELSE /\ wpc' = "false"
            /\ UNCHANGED contents
    /\ UNCHANGED <<wenv, fs, file>>

\* lines 360-402: the ELF is parsed and its library closure resolved
ShlibResolve ==
    /\ UNCHANGED nonwrapvars
    /\ wpc = "read"
    /\ wpc' = IF wenv.elf /\ wenv.resolves THEN "resolved" ELSE "err"
    /\ UNCHANGED <<wenv, fs, contents, file>>

\* lines 404-410
ShlibOpen ==
    /\ UNCHANGED nonwrapvars
    /\ wpc = "resolved"
    /\ LET o == open_output(fs, "src", wenv.output_path, contents)
       IN  /\ fs' = o.fs
           /\ file' = o.file
    /\ wpc' = "open"
    /\ UNCHANGED <<wenv, contents>>

\* lines 411-413: the pack is injected, Ok(true)
ShlibInject ==
    /\ UNCHANGED nonwrapvars
    /\ wpc = "open"
    /\ fs' = inject_pack(fs, file, wenv.pack)
    /\ file' = NoHandle
    /\ wpc' = "true"
    /\ UNCHANGED <<wenv, contents>>

WrapNext ==
    \/ ShlibRead
    \/ ShlibResolve
    \/ ShlibOpen
    \/ ShlibInject

InitWrap == WrapInit /\ DriverIdle /\ LibsIdle /\ ScriptIdle /\ CtxIdle

SpecWrap == InitWrap /\ [][WrapNext]_vars

----------------------------------------------------------------------------
(* Claims about the shared library wrapper (SpecWrap)                      *)

IsPrefix(p, q) == Len(p) <= Len(q) /\ SubSeq(q, 1, Len(p)) = p

\* C8: with output_path equal to source_path the file starts with the
\* original bytes at every step, and after the wrap it is the original bytes
\* followed by the pack; with a different output_path the source file keeps
\* its bytes at every step, and after the wrap the output file is the
\* source's bytes followed by the pack.
C8_SharedLibraryBytes ==
    /\ wenv.output_path = "src" =>
          /\ fs["src"].exists
          /\ IsPrefix(wenv.original, fs["src"].bytes)
          /\ wpc = "true" => fs["src"].bytes = wenv.original \o wenv.pack
    /\ wenv.output_path = "out" =>
          /\ fs["src"] = Existing(wenv.original)
          /\ wpc = "true" => fs["out"] = Existing(wenv.original \o wenv.pack)

\* a library of two bytes wrapped in place
C8_Witness ==
    /\ wpc = "true"
    /\ wenv.output_path = "src"
    /\ wenv.original = <<"x", "y">>
    /\ fs["src"].bytes = <<"x", "y">> \o wenv.pack

\* a library wrapped into an output file that held other, longer bytes
C8_WitnessOtherPath ==
    /\ wpc = "true"
    /\ wenv.output_path = "out"
    /\ wenv.original = <<"x">>
    /\ wenv.pack = <<"P">>
    /\ fs["src"].bytes = <<"x">>
    /\ fs["out"].bytes = <<"x", "P">>

----------------------------------------------------------------------------
(* The wrappers that replace the file by a packed executable:              *)
(* autowrap_dynamic_binary and autowrap_script, with the bytes of the      *)
(* files they read and write. Both run the same statements in the same     *)
(* order; the tool is the program interpreter for a dynamic binary and the *)
(* shebang command for a script.                                           *)
(*                                                                         *)
(* The environment wenv: the wrapper, whether its policy is configured,    *)
(* output_path ("src" is source_path itself), the bytes of the serialized  *)
(* pack, the statement that fails (or "none"), and the bytes source_path   *)
(* held when the wrapper was called.                                       *)
(***************************************************************************)

Shebang == <<"#", "!">>

\* the packed_executable of the policy, and the interpreter or command
StubBytes == <<"S">>

ToolBytes == <<"T">>

\* a wrapper that creates the output file before it embeds the source
WrapperSteps_create_first ==
    << "read", "find", "embed_tool", "create", "embed_source", "build",
       "open_stub", "copy", "inject" >>

\* the statements of a wrapper, in the order of the source:
\*   read         the source is read and parsed (ELF and its interpreter;
\*                "#!" and the shebang line)
\*   find         the interpreter or the command is searched
\*   embed_tool   add_named_blob_from(ctx, &interpreter_path / &command)
\*   embed_source add_named_blob_from(ctx, source_path)
\*   build        the pack is built (collect_all_library_dirs; the env
\*                resources and the runnable metadata)
\*   open_stub    File::open(packed_exec_path)
\*   create       File::create(output_path)
\*   copy         std::io::copy(&mut packed_exec, &mut output)
\*   inject       brioche_pack::inject_pack(output, &pack)
WrapperSteps ==
    << "read", "find", "embed_tool", "embed_source", "build", "open_stub",
       "create", "copy", "inject" >>

\* the statement after `step`, or "true" after the last: Ok(true)
StepAfter(step) ==
    LET i == CHOOSE k \in DOMAIN WrapperSteps : WrapperSteps[k] = step
    IN  IF i = Len(WrapperSteps) THEN "true" ELSE WrapperSteps[i + 1]

ExecEnvs ==
    [kind : {"dynamic_binary", "script"},
     policy : BOOLEAN,
     output_path : {"src", "out"},
     pack : PackBytes,
     fails : {"none"} \cup { WrapperSteps[k] : k \in DOMAIN WrapperSteps },
     original : SeqsUpTo(Bytes, MaxBytes)
                  \cup { Shebang \o b : b \in SeqsUpTo(Bytes, MaxBytes) }]

\* script_file.read_exact(&mut shebang) succeeds and shebang == *b"#!"
HasShebang(bytes) == Len(bytes) >= 2 /\ SubSeq(bytes, 1, 2) = Shebang

\* add_named_blob_from: the file at `path` is read and its bytes are stored
\* in the resource directory
add_named_blob_from(files0, path, resource) ==
    [files0 EXCEPT ![resource] = Existing(files0[path].bytes)]

\* File::create: the file is created, or truncated if it exists
create(files0, path) == [files0 EXCEPT ![path] = Existing(<<>>)]

ExecInit ==
    /\ wenv \in ExecEnvs
    /\ wpc = "start"
    /\ fs \in { [src |-> Existing(wenv.original), out |-> o,
                 stub |-> Existing(StubBytes), tool |-> Existing(ToolBytes),
                 resource_tool |-> Missing, resource_program |-> Missing] :
                  o \in {Missing} \cup { Existing(b) : b \in SeqsUpTo(Bytes, MaxBytes) } }
    /\ contents = <<>>
    /\ file = NoHandle

\* the statement at hand returns an error
ExecFails(step) == wenv.fails = step

\* lines 252-254, 421-423: no policy, Ok(false)
ExecStart ==
    /\ UNCHANGED nonwrapvars
    /\ wpc = "start"
    /\ wpc' = IF wenv.policy THEN Head(WrapperSteps) ELSE "false"
    /\ UNCHANGED <<wenv, fs, contents, file>>

\* lines 256-273: the binary is read and parsed; lines 425-454: a script
\* that does not start with "#!" is Ok(false), else its shebang line is
\* parsed
ExecRead ==
    /\ UNCHANGED nonwrapvars
    /\ wpc = "read"
    /\ contents' = fs["src"].bytes
    /\ wpc' = IF wenv.kind = "script" /\ ~HasShebang(fs["src"].bytes)
              THEN "false"
              ELSE IF ExecFails("read") THEN "err" ELSE StepAfter("read")
    /\ UNCHANGED <<wenv, fs, file>>

\* lines 275-286: could not find interpreter; lines 455-463: could not find
\* command
ExecFind ==
    /\ UNCHANGED nonwrapvars
    /\ wpc = "find"
    /\ wpc' = IF ExecFails("find") THEN "err" ELSE StepAfter("find")
    /\ UNCHANGED <<wenv, fs, contents, file>>

\* lines 287, 464
ExecEmbedTool ==
    /\ UNCHANGED nonwrapvars
    /\ wpc = "embed_tool"
    /\ IF ExecFails("embed_tool")
       THEN wpc' = "err" /\ UNCHANGED fs
       ELSE /\ wpc' = StepAfter("embed_tool")
            /\ fs' = add_named_blob_from(fs, "tool", "resource_tool")
    /\ UNCHANGED <<wenv, contents, file>>

\* lines 289, 465: the source file is embedded as the program or script
\* resource
ExecEmbedSource ==
    /\ UNCHANGED nonwrapvars
    /\ wpc = "embed_source"
    /\ IF ExecFails("embed_source")
       THEN wpc' = "err" /\ UNCHANGED fs
       ELSE /\ wpc' = StepAfter("embed_source")
            /\ fs' = add_named_blob_from(fs, "src", "resource_program")
    /\ UNCHANGED <<wenv, contents, file>>

\* lines 291-334: the library closure is resolved and the pack built;
\* lines 467-529
ExecBuild ==
    /\ UNCHANGED nonwrapvars
    /\ wpc = "build"
    /\ wpc' = IF ExecFails("build") THEN "err" ELSE StepAfter("build")
    /\ UNCHANGED <<wenv, fs, contents, file>>

\* lines 336-338, 531-533: failed to open packed executable
ExecOpenStub ==
    /\ UNCHANGED nonwrapvars
    /\ wpc = "open_stub"
    /\ wpc' = IF ExecFails("open_stub") THEN "err" ELSE StepAfter("open_stub")
    /\ UNCHANGED <<wenv, fs, contents, file>>

\* lines 339-340, 535-536
ExecCreate ==
    /\ UNCHANGED nonwrapvars
    /\ wpc = "create"
    /\ IF ExecFails("create")
       THEN wpc' = "err" /\ UNCHANGED <<fs, file>>
       ELSE /\ wpc' = StepAfter("create")
            /\ fs' = create(fs, wenv.output_path)
            /\ file' = Handle(wenv.output_path, FALSE, 0)
    /\ UNCHANGED <<wenv, contents>>

\* lines 341-342, 537-538: the stub is copied to the output file; a copy
\* that fails has written some of it
ExecCopy ==
    /\ UNCHANGED nonwrapvars
    /\ wpc = "copy"
    /\ LET stub == fs["stub"].bytes
       IN  IF ExecFails("copy")
           THEN /\ wpc' = "err"
                /\ \E n \in 0..(Len(stub) - 1) :
                      fs' = write_all(fs, file, SubSeq(stub, 1, n))
                /\ file' = NoHandle
           ELSE /\ wpc' = StepAfter("copy")
                /\ fs' = write_all(fs, file, stub)
                /\ file' = Handle(file.path, FALSE, file.pos + Len(stub))
    /\ UNCHANGED <<wenv, contents>>

\* lines 343-346, 539-542: the pack is written after the stub; an injection
\* that fails has written some of it
ExecInject ==
    /\ UNCHANGED nonwrapvars
    /\ wpc = "inject"
    /\ IF ExecFails("inject")
       THEN /\ wpc' = "err"
            /\ \E n \in 0..(Len(wenv.pack) - 1) :
                  fs' = inject_pack(fs, file, SubSeq(wenv.pack, 1, n))
       ELSE /\ wpc' = StepAfter("inject")
            /\ fs' = inject_pack(fs, file, wenv.pack)
    /\ file' = NoHandle
    /\ UNCHANGED <<wenv, contents>>

ExecNext ==
    \/ ExecStart
    \/ ExecRead
    \/ ExecFind
    \/ ExecEmbedTool
    \/ ExecEmbedSource
    \/ ExecBuild
    \/ ExecOpenStub
    \/ ExecCreate
    \/ ExecCopy
    \/ ExecInject

InitExec == ExecInit /\ DriverIdle /\ LibsIdle /\ ScriptIdle /\ CtxIdle

SpecExec == InitExec /\ [][ExecNext]_vars

----------------------------------------------------------------------------
(* Claims about the wrappers that replace the file (SpecExec)              *)

\* the statements that come before File::create(output_path)
BeforeCreate ==
    {"read", "find", "embed_tool", "embed_source", "build", "open_stub"}

Unchanged(path) == fs[path] = Existing(wenv.original)

\* C13: when output_path is source_path, the program or script resource,
\* once stored, holds the bytes the source file had when the wrapper was
\* called; the source file is changed only after that resource is stored,
\* and after Ok(true) it holds the stub followed by the pack while the
\* resource still holds the original bytes; and when the wrapper returns an
\* error from a statement before File::create (the source cannot be parsed,
\* the interpreter or command is not found, a library is not resolved, the
\* packed executable cannot be opened), the source file holds its original
\* bytes.
C13_OriginalEmbeddedBeforeTruncate ==
    wenv.output_path = "src" =>
        /\ fs["resource_program"].exists =>
              fs["resource_program"].bytes = wenv.original
        /\ ~Unchanged("src") => fs["resource_program"] = Existing(wenv.original)
        /\ wpc = "true" =>
              /\ fs["resource_program"] = Existing(wenv.original)
              /\ fs["src"] = Existing(StubBytes \o wenv.pack)
        /\ (wpc = "err" /\ wenv.fails \in BeforeCreate) => Unchanged("src")
        /\ wpc = "false" => Unchanged("src")

\* a dynamic binary of two bytes wrapped in place: the file is the stub and
\* the pack, the resource is the two bytes
C13_Witness ==
    /\ wpc = "true"
    /\ wenv.kind = "dynamic_binary"
    /\ wenv.output_path = "src"
    /\ wenv.original = <<"x", "y">>
    /\ fs["resource_program"].bytes = <<"x", "y">>
    /\ fs["src"].bytes = StubBytes \o wenv.pack

\* a script whose packed executable could not be opened: the script is as
\* it was, its resource stored
C13_WitnessStubMissing ==
    /\ wpc = "err"
    /\ wenv.kind = "script"
    /\ wenv.output_path = "src"
    /\ wenv.fails = "open_stub"
    /\ wenv.original = Shebang \o <<"x", "y">>
    /\ fs["src"].bytes = wenv.original
    /\ fs["resource_program"].bytes = wenv.original

============================================================================
